---------------------------- MODULE Spec2Model ----------------------------
(***************************************************************************)
(* Model of src/main.rs: the search / lookup / compare application.        *)
(*                                                                         *)
(* A string is a sequence of characters, a character a TLA+ string of one  *)
(* letter (or the name of a character outside ASCII).  The relational store and the file system are external: their   *)
(* content and their failures are inputs of the actions.                   *)
(***************************************************************************)
EXTENDS Integers, Sequences, FiniteSets, TLC

VARIABLES
    search_input,     \* App.search_input
    search_results,   \* App.search_results
    lookup_input,     \* App.lookup_input
    lookup_results,   \* App.lookup_results
    compare_results,  \* App.compare_results
    db,               \* rows visible through App.db (verses JOIN books)
    dir,              \* the entries fs::read_dir(".") yields
    rendered,         \* the search section of the window, as the last view built it
    crashed,          \* TRUE once a panic has unwound out of update
    submitted,        \* local state of the last SearchSubmitted, or NoSubmit
    looked_up,        \* local state of the last Lookup/CompareSubmitted, or NoLookup
    last_failure      \* stage at which the last single-source table query failed

vars == <<search_input, search_results, lookup_input, lookup_results,
          compare_results, db, dir, rendered, crashed, submitted, looked_up,
          last_failure>>

-----------------------------------------------------------------------------
(* Characters and strings *)

LowerLetters == <<"a","b","c","d","e","f","g","h","i","j","k","l","m",
                  "n","o","p","q","r","s","t","u","v","w","x","y","z">>

UpperLetters == <<"A","B","C","D","E","F","G","H","I","J","K","L","M",
                  "N","O","P","Q","R","S","T","U","V","W","X","Y","Z">>

\* char::is_whitespace, on the characters of the model
IsWhitespace(c) == c \in {" ", "\t"}

\* char::to_uppercase, on the characters of the model
UpperChar(c) ==
    IF \E i \in 1..26 : LowerLetters[i] = c
    THEN UpperLetters[CHOOSE i \in 1..26 : LowerLetters[i] = c]
    ELSE c

\* str::to_uppercase
to_uppercase(s) == [i \in 1..Len(s) |-> UpperChar(s[i])]

\* str::starts_with
starts_with(s, p) == Len(s) >= Len(p) /\ SubSeq(s, 1, Len(p)) = p

RECURSIVE TrimStart(_)
TrimStart(s) ==
    IF s # <<>> /\ IsWhitespace(Head(s)) THEN TrimStart(Tail(s)) ELSE s

RECURSIVE TrimEnd(_)
TrimEnd(s) ==
    IF s # <<>> /\ IsWhitespace(s[Len(s)])
    THEN TrimEnd(SubSeq(s, 1, Len(s) - 1))
    ELSE s

\* str::trim
trim(s) == TrimEnd(TrimStart(s))

RECURSIVE SplitFrom(_, _, _, _)
SplitFrom(s, i, cur, acc) ==
    IF i > Len(s)
    THEN IF cur = <<>> THEN acc ELSE Append(acc, cur)
    ELSE IF IsWhitespace(s[i])
         THEN SplitFrom(s, i + 1, <<>>, IF cur = <<>> THEN acc ELSE Append(acc, cur))
         ELSE SplitFrom(s, i + 1, Append(cur, s[i]), acc)

\* str::split_whitespace: the maximal runs of non-whitespace characters
split_whitespace(s) == SplitFrom(s, 1, <<>>, <<>>)

RECURSIVE Concat(_)
Concat(ss) == IF ss = <<>> THEN <<>> ELSE Head(ss) \o Concat(Tail(ss))

\* [T]::join
RECURSIVE join(_, _)
join(ss, sep) ==
    IF ss = <<>> THEN <<>>
    ELSE IF Len(ss) = 1 THEN ss[1]
    ELSE ss[1] \o sep \o join(Tail(ss), sep)

KwAND == <<"A","N","D">>
KwOR  == <<"O","R">>
KwNOT == <<"N","O","T">>

-----------------------------------------------------------------------------
(* build_where_clause.  The clause is a sequence of SQL fragments: the     *)
(* conditions at the odd positions, the joining operator between them.     *)

CondLike    == "text LIKE '%' || ? || '%'"
CondNotLike == "text NOT LIKE '%' || ? || '%'"
TrueClause  == "1"

\* The first loop as it would be without the break: the scan does not stop at "AND".
RECURSIVE ScanOperatorNoBreak(_, _, _)
ScanOperatorNoBreak(tokens, i, operator) ==
    IF i > Len(tokens) THEN operator
    ELSE LET upper == to_uppercase(tokens[i])
         IN  IF upper = KwAND THEN ScanOperatorNoBreak(tokens, i + 1, "AND")
             ELSE IF upper = KwOR THEN ScanOperatorNoBreak(tokens, i + 1, "OR")
             ELSE ScanOperatorNoBreak(tokens, i + 1, operator)

\* The first loop of build_where_clause, from token i on
RECURSIVE ScanOperator(_, _, _)
ScanOperator(tokens, i, operator) ==
    IF i > Len(tokens) THEN operator
    ELSE LET upper == to_uppercase(tokens[i])
         IN  IF upper = KwAND THEN "AND"
             ELSE IF upper = KwOR THEN ScanOperator(tokens, i + 1, "OR")
             ELSE ScanOperator(tokens, i + 1, operator)

\* The second loop's body read otherwise: the prefix test is len >= 3.
PushTokenGe3(acc, token) ==
    LET upper == to_uppercase(token)
    IN  IF upper = KwAND \/ upper = KwOR THEN acc
        ELSE IF starts_with(upper, KwNOT) /\ Len(token) >= 3
        THEN LET term == trim(SubSeq(token, 4, Len(token)))
             IN  IF term # <<>>
                 THEN [conditions |-> Append(acc.conditions, CondNotLike),
                       params     |-> Append(acc.params, term)]
                 ELSE acc
        ELSE [conditions |-> Append(acc.conditions, CondLike),
              params     |-> Append(acc.params, token)]

\* The second loop's body read otherwise: "OR" is not skipped.
PushTokenKeepOr(acc, token) ==
    LET upper == to_uppercase(token)
    IN  IF upper = KwAND THEN acc
        ELSE IF starts_with(upper, KwNOT) /\ Len(token) > 3
        THEN LET term == trim(SubSeq(token, 4, Len(token)))
             IN  IF term # <<>>
                 THEN [conditions |-> Append(acc.conditions, CondNotLike),
                       params     |-> Append(acc.params, term)]
                 ELSE acc
        ELSE [conditions |-> Append(acc.conditions, CondLike),
              params     |-> Append(acc.params, token)]

\* The body of the second loop of build_where_clause, for one token
PushToken(acc, token) ==
    LET upper == to_uppercase(token)
    IN  IF upper = KwAND \/ upper = KwOR THEN acc
        ELSE IF starts_with(upper, KwNOT) /\ Len(token) > 3
        THEN LET term == trim(SubSeq(token, 4, Len(token)))
             IN  IF term # <<>>
                 THEN [conditions |-> Append(acc.conditions, CondNotLike),
                       params     |-> Append(acc.params, term)]
                 ELSE acc
        ELSE [conditions |-> Append(acc.conditions, CondLike),
              params     |-> Append(acc.params, token)]

RECURSIVE CollectTerms(_, _, _)
CollectTerms(tokens, i, acc) ==
    IF i > Len(tokens) THEN acc
    ELSE CollectTerms(tokens, i + 1, PushToken(acc, tokens[i]))

\* format!(" {} ", operator)
Separator(operator) == IF operator = "AND" THEN " AND " ELSE " OR "

\* Read otherwise: no conditions gives the empty clause text.
JoinConditionsNoFallback(conditions, operator) ==
    join([i \in 1..Len(conditions) |-> <<conditions[i]>>], <<Separator(operator)>>)

\* The clause: "1", or the conditions joined by " <operator> "
JoinConditions(conditions, operator) ==
    IF conditions = <<>>
    THEN <<TrueClause>>
    ELSE join([i \in 1..Len(conditions) |-> <<conditions[i]>>], <<Separator(operator)>>)

build_where_clause(query) ==
    LET tokens   == split_whitespace(query)
        operator == ScanOperator(tokens, 1, "AND")
        acc      == CollectTerms(tokens, 1, [conditions |-> <<>>, params |-> <<>>])
    IN  [clause |-> JoinConditions(acc.conditions, operator),
         params |-> acc.params]

-----------------------------------------------------------------------------
(* parse_lookup *)

Digits == <<"0","1","2","3","4","5","6","7","8","9">>

IsAsciiDigit(c) == \E i \in 1..10 : Digits[i] = c

DigitValue(c) == (CHOOSE i \in 1..10 : Digits[i] = c) - 1

\* ARABIC-INDIC DIGIT THREE, a decimal digit outside ASCII
Arabic3 == "U+0663"

\* \d of the regex crate: any decimal digit of Unicode
IsRegexDigit(c) == IsAsciiDigit(c) \/ c = Arabic3

\* A u32 is held in two limbs, value = hi * LimbBase + lo, as the model's
\* integers are narrower than 2^32.  u32::MAX = 42949 * 100000 + 67295.
LimbBase == 100000
U32MaxHi == 42949
U32MaxLo == 67295

U32(hi, lo) == [hi |-> hi, lo |-> lo]

NoU32 == [hi |-> -1, lo |-> -1]

\* <u32 as FromStr>::from_str on s[i..]: NoU32 on a character that is not an
\* ASCII digit, or when acc * 10 + digit exceeds u32::MAX
RECURSIVE ParseU32From(_, _, _)
ParseU32From(s, i, acc) ==
    IF i > Len(s) THEN acc
    ELSE IF ~IsAsciiDigit(s[i]) THEN NoU32
    ELSE LET lo10 == acc.lo * 10 + DigitValue(s[i])
             hi   == acc.hi * 10 + (lo10 \div LimbBase)
             lo   == lo10 % LimbBase
         IN  IF hi > U32MaxHi \/ (hi = U32MaxHi /\ lo > U32MaxLo)
             THEN NoU32
             ELSE ParseU32From(s, i + 1, U32(hi, lo))

parse_u32(s) == IF s = <<>> THEN NoU32 ELSE ParseU32From(s, 1, U32(0, 0))

\* The character classes of the pattern: \S, \s and \d
InClass(c, class) ==
    CASE class = "S" -> ~IsWhitespace(c)
      [] class = "s" -> IsWhitespace(c)
      [] class = "d" -> IsRegexDigit(c)

\* The end of the longest run of characters of a class that starts at s[i]:
\* the index after its last character
RECURSIVE RunEnd(_, _, _)
RunEnd(s, i, class) ==
    IF i <= Len(s) /\ InClass(s[i], class) THEN RunEnd(s, i + 1, class) ELSE i

CharAt(s, i, c) == i <= Len(s) /\ s[i] = c

\* $ of the regex: the end of the input
AtEnd(s, i) == i = Len(s) + 1

NoCaptures ==
    [matched |-> FALSE, book |-> <<>>, start_ch |-> <<>>, start_v |-> <<>>,
     has_end_ch |-> FALSE, end_ch |-> <<>>, end_v |-> <<>>]

\* Regex::captures with
\*   ^(?P<book>\S+)\s+(?P<start_ch>\d+):(?P<start_v>\d+)-(?:(?P<end_ch>\d+):)?(?P<end_v>\d+)$
\* Every repetition is followed by a character outside its class, so the
\* leftmost-first match takes each run whole.
captures(query) ==
    LET p1 == RunEnd(query, 1, "S")
        p2 == RunEnd(query, p1, "s")
        p3 == RunEnd(query, p2, "d")
        p4 == RunEnd(query, p3 + 1, "d")
        p5 == RunEnd(query, p4 + 1, "d")
        p6 == RunEnd(query, p5 + 1, "d")
        head == /\ p1 > 1 /\ p2 > p1 /\ p3 > p2 /\ CharAt(query, p3, ":")
                /\ p4 > p3 + 1 /\ CharAt(query, p4, "-") /\ p5 > p4 + 1
        caps(has_end_ch, end_ch, end_v) ==
            [matched |-> TRUE,
             book |-> SubSeq(query, 1, p1 - 1),
             start_ch |-> SubSeq(query, p2, p3 - 1),
             start_v |-> SubSeq(query, p3 + 1, p4 - 1),
             has_end_ch |-> has_end_ch, end_ch |-> end_ch, end_v |-> end_v]
    IN  IF ~head THEN NoCaptures
        ELSE IF CharAt(query, p5, ":") /\ p6 > p5 + 1 /\ AtEnd(query, p6)
        THEN caps(TRUE, SubSeq(query, p4 + 1, p5 - 1), SubSeq(query, p5 + 1, p6 - 1))
        ELSE IF AtEnd(query, p5)
        THEN caps(FALSE, <<>>, SubSeq(query, p4 + 1, p5 - 1))
        ELSE NoCaptures

NoRange ==
    [ok |-> FALSE, book |-> <<>>, start_ch |-> NoU32, start_v |-> NoU32,
     end_ch |-> NoU32, end_v |-> NoU32]

\* Read otherwise: an omitted end chapter defaults to the end verse.
EndChapterFromVerse(caps, start_ch) ==
    IF caps.has_end_ch THEN parse_u32(caps.end_ch) ELSE parse_u32(caps.end_v)

\* let end_ch: u32 = if let Some(m) = caps.name("end_ch") { .. } else { start_ch }
EndChapter(caps, start_ch) ==
    IF caps.has_end_ch THEN parse_u32(caps.end_ch) ELSE start_ch

parse_lookup(query) ==
    LET caps     == captures(query)
        start_ch == parse_u32(caps.start_ch)
        start_v  == parse_u32(caps.start_v)
        end_ch   == EndChapter(caps, start_ch)
        end_v    == parse_u32(caps.end_v)
    IN  IF ~caps.matched THEN NoRange
        ELSE IF NoU32 \in {start_ch, start_v, end_ch, end_v} THEN NoRange
        ELSE [ok |-> TRUE, book |-> caps.book, start_ch |-> start_ch,
              start_v |-> start_v, end_ch |-> end_ch, end_v |-> end_v]

-----------------------------------------------------------------------------
(* split_for_highlight.  The regex crate is modelled on the characters the *)
(* model's queries hold: letters, the repetition * and the group opener (. *)
(* Offsets count characters from 0, as the byte offsets of the code do on  *)
(* ASCII text.                                                             *)

\* The token filter read otherwise: tokens with a NOT prefix are kept.
IsMatchableKeepNot(t) ==
    LET upper == to_uppercase(t)
    IN  upper # KwAND /\ upper # KwOR

\* The closure of the filter over the query's tokens
IsMatchable(t) ==
    LET upper == to_uppercase(t)
    IN  upper # KwAND /\ upper # KwOR /\ ~starts_with(upper, KwNOT)

HighlightTokens(query) == SelectSeq(split_whitespace(query), IsMatchable)

\* format!("(?i)({})", tokens.join("|"))
HighlightPattern(tokens) ==
    <<"(", "?", "i", ")", "(">> \o join(tokens, <<"|">>) \o <<")">>

CountOf(s, c) == Cardinality({ i \in 1..Len(s) : s[i] = c })

\* The pieces of s between the occurrences of c
RECURSIVE SplitOn(_, _, _, _, _)
SplitOn(s, c, i, cur, acc) ==
    IF i > Len(s) THEN Append(acc, cur)
    ELSE IF s[i] = c THEN SplitOn(s, c, i + 1, <<>>, Append(acc, cur))
    ELSE SplitOn(s, c, i + 1, Append(cur, s[i]), acc)

\* One alternative as a sequence of items [char, star]; * repeats the item
\* before it (a** repeats a repetition) and is an error with nothing before it
RECURSIVE ParseBranch(_, _, _)
ParseBranch(branch, i, items) ==
    IF i > Len(branch) THEN [ok |-> TRUE, items |-> items]
    ELSE IF branch[i] = "*"
         THEN IF items = <<>> THEN [ok |-> FALSE, items |-> <<>>]
              ELSE ParseBranch(branch, i + 1,
                       [items EXCEPT ![Len(items)] = [char |-> @.char, star |-> TRUE]])
         ELSE ParseBranch(branch, i + 1,
                  Append(items, [char |-> branch[i], star |-> FALSE]))

\* Regex::new on a pattern "(?i)(" alternatives ")".  A ( of a token is never
\* closed, as no token holds a ): the pattern then has an unclosed group.
RegexNew(pattern) ==
    LET body     == SubSeq(pattern, 5, Len(pattern))
        inner    == SubSeq(body, 2, Len(body) - 1)
        branches == SplitOn(inner, "|", 1, <<>>, <<>>)
        parsed   == [i \in 1..Len(branches) |-> ParseBranch(branches[i], 1, <<>>)]
    IN  IF CountOf(body, "(") # CountOf(body, ")")
        THEN [ok |-> FALSE, branches |-> <<>>]
        ELSE IF \E i \in 1..Len(parsed) : ~parsed[i].ok
        THEN [ok |-> FALSE, branches |-> <<>>]
        ELSE [ok |-> TRUE, branches |-> [i \in 1..Len(parsed) |-> parsed[i].items]]

\* (?i): a character of the text matches a character of the pattern
SameLetter(a, b) == UpperChar(a) = UpperChar(b)

\* The number of characters equal to c that start at offset pos
RECURSIVE RunLength(_, _, _)
RunLength(text, pos, c) ==
    IF pos < Len(text) /\ SameLetter(text[pos + 1], c)
    THEN 1 + RunLength(text, pos + 1, c)
    ELSE 0

\* The end of the preferred match of items[k..] at offset pos, or -1: a
\* repetition takes as many characters as the rest of the items allows
RECURSIVE MatchItems(_, _, _, _)
RECURSIVE MatchStar(_, _, _, _, _)
MatchItems(items, k, text, pos) ==
    IF k > Len(items) THEN pos
    ELSE IF items[k].star
         THEN MatchStar(items, k, text, pos, RunLength(text, pos, items[k].char))
         ELSE IF pos < Len(text) /\ SameLetter(text[pos + 1], items[k].char)
              THEN MatchItems(items, k + 1, text, pos + 1)
              ELSE -1

MatchStar(items, k, text, pos, count) ==
    LET end == MatchItems(items, k + 1, text, pos + count)
    IN  IF end # -1 THEN end
        ELSE IF count = 0 THEN -1
        ELSE MatchStar(items, k, text, pos, count - 1)

\* The end of the match at offset pos of the first alternative that matches
RECURSIVE MatchBranches(_, _, _, _)
MatchBranches(branches, b, text, pos) ==
    IF b > Len(branches) THEN -1
    ELSE LET end == MatchItems(branches[b], 1, text, pos)
         IN  IF end # -1 THEN end ELSE MatchBranches(branches, b + 1, text, pos)

NoMatch == [start |-> -1, end |-> -1]

\* The leftmost match that starts at offset from or later
RECURSIVE FindAt(_, _, _)
FindAt(re, text, from) ==
    IF from > Len(text) THEN NoMatch
    ELSE LET end == MatchBranches(re.branches, 1, text, from)
         IN  IF end # -1 THEN [start |-> from, end |-> end]
             ELSE FindAt(re, text, from + 1)

\* Regex::find_iter: the matches from offset from on, none overlapping; an
\* empty match at the end of the match before it is skipped
RECURSIVE FindIter(_, _, _, _)
FindIter(re, text, from, last_match_end) ==
    LET first == FindAt(re, text, from)
        m == IF first # NoMatch /\ first.start = first.end /\ first.end = last_match_end
             THEN FindAt(re, text, from + 1)
             ELSE first
    IN  IF m = NoMatch THEN <<>>
        ELSE <<m>> \o FindIter(re, text, m.end, m.end)

Segment(start, end, is_match) == [start |-> start, end |-> end, is_match |-> is_match]

\* The body of the loop over the matches: acc is [segments, last_end]
RECURSIVE PushMatches(_, _, _)
PushMatches(matches, i, acc) ==
    IF i > Len(matches) THEN acc
    ELSE LET start == matches[i].start
             end   == matches[i].end
             gap   == IF start > acc.last_end
                      THEN Append(acc.segments, Segment(acc.last_end, start, FALSE))
                      ELSE acc.segments
         IN  PushMatches(matches, i + 1,
                 [segments |-> Append(gap, Segment(start, end, TRUE)), last_end |-> end])

\* A segment is the slice text[start..end] and its flag
split_for_highlight(text, query) ==
    LET tokens == HighlightTokens(query)
        re     == RegexNew(HighlightPattern(tokens))
        whole  == << Segment(0, Len(text), FALSE) >>
        acc    == PushMatches(FindIter(re, text, 0, -1), 1,
                              [segments |-> <<>>, last_end |-> 0])
    IN  IF tokens = <<>> THEN whole
        ELSE IF ~re.ok THEN whole
        ELSE IF acc.last_end < Len(text)
             THEN Append(acc.segments, Segment(acc.last_end, Len(text), FALSE))
             ELSE acc.segments

\* The slice a segment denotes
SliceOf(text, segment) == SubSeq(text, segment.start + 1, segment.end)

-----------------------------------------------------------------------------
(* The store.  A row of verses JOIN books:                                 *)
(*   [short_name, long_name, chapter, verse, text, decodes]                *)
(* decodes = FALSE is a row one of whose row.get(i) fails (a NULL, a value *)
(* of another type).                                                       *)

Verse(long_name, chapter, verse, text) ==
    [long_name |-> long_name, chapter |-> chapter, verse |-> verse, text |-> text]

\* text LIKE '%' || param || '%': SQLite's LIKE ignores the case of ASCII letters
Like(text, param) ==
    \E i \in 0..(Len(text) - Len(param)) :
        to_uppercase(SubSeq(text, i + 1, i + Len(param))) = to_uppercase(param)

\* The conditions of a clause, in order
ConditionsOf(clause) ==
    IF clause = <<TrueClause>> THEN <<>>
    ELSE [i \in 1..((Len(clause) + 1) \div 2) |-> clause[2 * i - 1]]

\* Connection::prepare accepts the statement; the i-th ? is bound to params[i]
WellFormed(clause) ==
    /\ clause # <<>>
    /\ Len(clause) % 2 = 1
    /\ \A i \in 1..Len(clause) :
          IF i % 2 = 1
          THEN clause[i] \in {CondLike, CondNotLike} \/ (clause[i] = TrueClause /\ Len(clause) = 1)
          ELSE clause[i] \in {" AND ", " OR "}

\* WHERE <clause> on one row text.  AND binds tighter than OR.
EvalWhere(clause, params, text) ==
    LET conds   == ConditionsOf(clause)
        n       == Len(conds)
        val(i)  == IF conds[i] = CondLike THEN Like(text, params[i])
                   ELSE ~Like(text, params[i])
        \* the maximal runs of conditions joined by " AND "
        startsRun(i) == i = 1 \/ clause[2 * i - 2] = " OR "
        runEnd(i)    == CHOOSE j \in i..n :
                           /\ \A k \in (i + 1)..j : clause[2 * k - 2] = " AND "
                           /\ (j = n \/ clause[2 * j] = " OR ")
    IN  IF clause = <<TrueClause>> THEN TRUE
        ELSE \E i \in 1..n : startsRun(i) /\ \A k \in i..runEnd(i) : val(k)

\* filter_map(|result| result.ok()) over the rows the query yields
DecodedVerses(rows) ==
    LET ok == SelectSeq(rows, LAMBDA r : r.decodes)
    IN  [i \in 1..Len(ok) |-> Verse(ok[i].long_name, ok[i].chapter, ok[i].verse, ok[i].text)]

\* The 64-bit key (chapter * 1000) + verse in limbs: value = hi * LimbBase + lo
KeyOfParams(chapter, verse) ==
    LET low  == chapter.lo * 1000 + verse.lo
        high == chapter.hi * 1000 + verse.hi
    IN  [hi |-> high + (low \div LimbBase), lo |-> low % LimbBase]

KeyOfRow(r) ==
    LET k == r.chapter * 1000 + r.verse
    IN  [hi |-> k \div LimbBase, lo |-> k % LimbBase]

KeyLeq(a, b) == a.hi < b.hi \/ (a.hi = b.hi /\ a.lo <= b.lo)

\* ORDER BY v.chapter, v.verse: insertion of r into rows sorted that way
RECURSIVE InsertRow(_, _)
InsertRow(rows, r) ==
    IF rows = <<>> THEN <<r>>
    ELSE LET h == Head(rows)
         IN  IF h.chapter < r.chapter \/ (h.chapter = r.chapter /\ h.verse <= r.verse)
             THEN <<h>> \o InsertRow(Tail(rows), r)
             ELSE <<r>> \o rows

RECURSIVE OrderByChapterVerse(_)
OrderByChapterVerse(rows) ==
    IF rows = <<>> THEN <<>>
    ELSE InsertRow(OrderByChapterVerse(SubSeq(rows, 1, Len(rows) - 1)), rows[Len(rows)])

\* WHERE b.short_name = ? AND ((v.chapter * 1000) + v.verse)
\*       BETWEEN ((? * 1000) + ?) AND ((? * 1000) + ?) ORDER BY v.chapter, v.verse
RangeRows(rows, range) ==
    LET low  == KeyOfParams(range.start_ch, range.start_v)
        high == KeyOfParams(range.end_ch, range.end_v)
        hit(r) == /\ r.short_name = range.book
                  /\ KeyLeq(low, KeyOfRow(r))
                  /\ KeyLeq(KeyOfRow(r), high)
    IN  OrderByChapterVerse(SelectSeq(rows, hit))

NoSubmit == [done |-> FALSE, query |-> <<>>, clause |-> <<>>, params |-> <<>>]

NoLookup == [done |-> FALSE, message |-> "none", input |-> <<>>, parsed |-> NoRange]


\* Stages at which a single-source table query can fail before any row is read
Stages == {"none", "prepare", "query"}

-----------------------------------------------------------------------------
(* App::view.  The runtime calls view after every update that returns; the *)
(* search section then shows, for each verse listed, its text cut into the *)
(* segments of split_for_highlight.                                        *)

ViewSearchSegments(results, input) ==
    [i \in 1..Len(results) |->
        [text |-> results[i].text,
         segments |-> split_for_highlight(results[i].text, input)]]

-----------------------------------------------------------------------------
(* App::update *)

\* Message::SearchChanged(query)
SearchChanged(query) ==
    /\ ~crashed
    /\ search_input' = query
    /\ rendered' = ViewSearchSegments(search_results, query)
    /\ UNCHANGED <<search_results, lookup_input, lookup_results, compare_results,
                   db, dir, crashed, submitted, looked_up, last_failure>>

\* Message::SearchSubmitted.  stage is the store's behaviour on this call.
SearchSubmitted ==
    /\ ~crashed
    /\ LET built == build_where_clause(search_input)
           rows  == SelectSeq(db, LAMBDA r : EvalWhere(built.clause, built.params, r.text))
       IN  \E stage \in Stages :
             /\ ~WellFormed(built.clause) => stage = "prepare"
             /\ (WellFormed(built.clause) /\ Len(ConditionsOf(built.clause)) # Len(built.params))
                   => stage # "none"
             /\ submitted' = [done |-> TRUE, query |-> search_input,
                               clause |-> built.clause, params |-> built.params]
             /\ IF stage = "none"
                THEN /\ search_results' = DecodedVerses(rows)
                     /\ rendered' = ViewSearchSegments(DecodedVerses(rows), search_input)
                     /\ crashed' = FALSE
                     /\ last_failure' = IF \E i \in 1..Len(rows) : ~rows[i].decodes
                                        THEN "row" ELSE "none"
                ELSE \* .expect(..) panics
                     /\ search_results' = search_results
                     /\ rendered' = rendered
                     /\ crashed' = TRUE
                     /\ last_failure' = stage
    /\ UNCHANGED <<search_input, lookup_input, lookup_results, compare_results,
                   db, dir, looked_up>>

\* Message::LookupChanged(query)
LookupChanged(query) ==
    /\ ~crashed
    /\ lookup_input' = query
    /\ UNCHANGED <<search_input, search_results, lookup_results, compare_results,
                   db, dir, rendered, crashed, submitted, looked_up, last_failure>>

\* Message::LookupSubmitted.  stage is the store's behaviour on this call.
LookupSubmitted ==
    /\ ~crashed
    /\ compare_results' = <<>>
    /\ LET range == parse_lookup(lookup_input)
           rows  == RangeRows(db, range)
       IN  /\ looked_up' = [done |-> TRUE, message |-> "LookupSubmitted",
                             input |-> lookup_input, parsed |-> range]
           /\ IF range.ok
              THEN \E stage \in Stages :
                     IF stage = "none"
                     THEN /\ lookup_results' = DecodedVerses(rows)
                          /\ crashed' = FALSE
                          /\ last_failure' = IF \E i \in 1..Len(rows) : ~rows[i].decodes
                                             THEN "row" ELSE "none"
                     ELSE \* .expect(..) panics
                          /\ lookup_results' = lookup_results
                          /\ crashed' = TRUE
                          /\ last_failure' = stage
              ELSE /\ lookup_results' = <<>>
                   /\ crashed' = FALSE
                   /\ last_failure' = "none"
    /\ UNCHANGED <<search_input, search_results, lookup_input, db, dir, rendered,
                   submitted>>

SQLite3 == <<"S","Q","L","i","t","e","3">>

\* str::eq_ignore_ascii_case
eq_ignore_ascii_case(a, b) == to_uppercase(a) = to_uppercase(b)

UnknownBible == "Unknown Bible"

\* The verses of one source, each labelled with the source's name
SourceVerses(bible_name, rows) ==
    LET ok == SelectSeq(rows, LAMBDA r : r.decodes)
    IN  [i \in 1..Len(ok) |-> Verse(bible_name, ok[i].chapter, ok[i].verse, ok[i].text)]

\* Read otherwise: a source that cannot be queried ends the comparison.
RECURSIVE CompareFromAborting(_, _, _, _)
CompareFromAborting(entries, i, range, acc) ==
    IF i > Len(entries) THEN acc
    ELSE LET e == entries[i]
             bible_name == IF e.description.ok THEN e.description.value ELSE UnknownBible
         IN  IF ~e.readable \/ ~e.has_extension
                \/ ~eq_ignore_ascii_case(e.extension, SQLite3)
             THEN CompareFromAborting(entries, i + 1, range, acc)
             ELSE IF ~e.opens \/ ~e.prepares \/ ~e.queries
             THEN acc
             ELSE CompareFromAborting(entries, i + 1, range,
                      Append(acc, <<bible_name, SourceVerses(bible_name, RangeRows(e.rows, range))>>))

\* The loop over the directory entries, from entry i on.  An entry:
\*   [readable, has_extension, extension, opens, description, prepares, queries, rows]
RECURSIVE CompareFrom(_, _, _, _)
CompareFrom(entries, i, range, acc) ==
    IF i > Len(entries) THEN acc
    ELSE LET e == entries[i]
             bible_name == IF e.description.ok THEN e.description.value ELSE UnknownBible
         IN  IF ~e.readable \/ ~e.has_extension
                \/ ~eq_ignore_ascii_case(e.extension, SQLite3)
                \/ ~e.opens \/ ~e.prepares \/ ~e.queries
             THEN CompareFrom(entries, i + 1, range, acc)
             ELSE CompareFrom(entries, i + 1, range,
                      Append(acc, <<bible_name, SourceVerses(bible_name, RangeRows(e.rows, range))>>))

\* Read otherwise: the comparison leaves the lookup results as they are.
CompareSubmittedKeepLookup ==
    /\ ~crashed
    /\ lookup_results' = lookup_results
    /\ LET range == parse_lookup(lookup_input)
       IN  /\ looked_up' = [done |-> TRUE, message |-> "CompareSubmitted",
                             input |-> lookup_input, parsed |-> range]
           /\ IF range.ok
              THEN compare_results' =
                       IF dir.readable THEN CompareFrom(dir.entries, 1, range, <<>>) ELSE <<>>
              ELSE compare_results' = <<>>
    /\ UNCHANGED <<search_input, search_results, lookup_input, db, dir, rendered,
                   crashed, submitted, last_failure>>

\* Message::CompareSubmitted.  dir.readable = FALSE is fs::read_dir failing.
CompareSubmitted ==
    /\ ~crashed
    /\ lookup_results' = <<>>
    /\ LET range == parse_lookup(lookup_input)
       IN  /\ looked_up' = [done |-> TRUE, message |-> "CompareSubmitted",
                             input |-> lookup_input, parsed |-> range]
           /\ IF range.ok
              THEN compare_results' =
                       IF dir.readable THEN CompareFrom(dir.entries, 1, range, <<>>) ELSE <<>>
              ELSE compare_results' = <<>>
    /\ UNCHANGED <<search_input, search_results, lookup_input, db, dir, rendered,
                   crashed, submitted, last_failure>>

-----------------------------------------------------------------------------
(* Bounded inputs *)

Row(short_name, long_name, chapter, verse, text, decodes) ==
    [short_name |-> short_name, long_name |-> long_name, chapter |-> chapter,
     verse |-> verse, text |-> text, decodes |-> decodes]

Gen == <<"G","e","n">>
Exo == <<"E","x","o">>

\* The content of KJ1769.SQLite3 in the model, in the order the table yields it
MainTable ==
    << Row(Gen, "Genesis", 6, 3, <<"X"," ","n","o">>, TRUE),
       Row(Gen, "Genesis", 6, 1, <<"x","y">>, TRUE),
       Row(Gen, "Genesis", 7, 1, <<"a","n","d"," ","n","o","t">>, TRUE),
       Row(Gen, "Genesis", 6, 2, <<"y">>, FALSE),
       Row(Exo, "Exodus", 6, 1, <<"o","r">>, TRUE) >>

MaxPieces == 4

\* Fragments of a query; a fragment without a trailing blank runs into the next
CompileLexicon ==
    { <<"A","n","d"," ">>, <<"o","r"," ">>, <<"N","o","t">>,
      <<"N","O"," ">>, <<"x"," ">>, <<" ">> }

SeqsUpTo(S, n) == UNION { [1..k -> S] : k \in 0..n }

CompileQueries == { Concat(ps) : ps \in SeqsUpTo(CompileLexicon, MaxPieces) }

MaxDeviations == 2

\* A reference is ten fields in a row; the first option of each field is the
\* one of "Gen 6:1-6", the others depart from it.
RefSlots ==
    << << <<>>, <<" ">> >>,
       << <<"G","e","n">>, <<>>, <<"1","-","2">> >>,
       << <<" ">>, <<>>, <<" ","\t">> >>,
       << <<"6">>, <<>>, <<"0","0","7">>, <<"4","2","9","4","9","6","7","2","9","5">>, <<"4","2","9","4","9","6","7","2","9","6">>, <<Arabic3>> >>,
       << <<":">>, <<>>, <<"-">> >>,
       << <<"1">>, <<>>, <<"4","2","9","4","9","6","7","2","9","6">>, <<"1","2">> >>,
       << <<"-">>, <<>>, <<":">> >>,
       << <<>>, <<"7",":">>, <<"4","2","9","4","9","6","7","2","9","6",":">>, <<":">>, <<"4","2","9","4","9","6","7","2","9","5",":">> >>,
       << <<"6">>, <<>>, <<"2",":">>, <<"9","9","9","9","9","9","9","9","9","9","9">>, <<"0">>, <<"2">> >>,
       << <<>>, <<" ">>, <<"x">> >> >>

\* The references that depart from "Gen 6:1-6" in at most budget fields from
\* field i on
RECURSIVE RefInputsFrom(_, _)
RefInputsFrom(i, budget) ==
    IF i > Len(RefSlots) THEN { <<>> }
    ELSE { RefSlots[i][1] \o rest : rest \in RefInputsFrom(i + 1, budget) }
         \cup (IF budget = 0 THEN {}
               ELSE { RefSlots[i][k] \o rest :
                        k \in 2..Len(RefSlots[i]),
                        rest \in RefInputsFrom(i + 1, budget - 1) })

ParseInputs == RefInputsFrom(1, MaxDeviations)

Entry(readable, has_extension, extension, opens, description, prepares, queries, rows) ==
    [readable |-> readable, has_extension |-> has_extension, extension |-> extension,
     opens |-> opens, description |-> description, prepares |-> prepares,
     queries |-> queries, rows |-> rows]

Described(value) == [ok |-> TRUE, value |-> value]
NoDescription == [ok |-> FALSE, value |-> ""]

KjvRows ==
    << Row(Gen, "Genesis", 6, 2, <<"k","j","v"," ","b">>, TRUE),
       Row(Gen, "Genesis", 6, 1, <<"k","j","v"," ","a">>, TRUE),
       Row(Exo, "Exodus", 6, 1, <<"k","j","v"," ","e">>, TRUE) >>

AsvRows ==
    << Row(Gen, "Gen", 7, 1, <<"a","s","v"," ","c">>, TRUE),
       Row(Gen, "Gen", 6, 1, <<"a","s","v"," ","a">>, TRUE),
       Row(Gen, "Gen", 6, 2, <<"a","s","v"," ","b">>, FALSE) >>

\* The kinds of directory entry of the model
GoodKjv      == Entry(TRUE, TRUE, <<"S","Q","L","i","t","e","3">>, TRUE, Described("KJV"), TRUE, TRUE, KjvRows)
GoodAsv      == Entry(TRUE, TRUE, <<"s","q","l","i","t","e","3">>, TRUE, Described("ASV"), TRUE, TRUE, AsvRows)
Unlabelled   == Entry(TRUE, TRUE, <<"S","Q","L","i","t","e","3">>, TRUE, NoDescription, TRUE, TRUE, KjvRows)
NotADatabase == Entry(TRUE, TRUE, <<"t","x","t">>, TRUE, Described("KJV"), TRUE, TRUE, KjvRows)
NoExtension  == Entry(TRUE, FALSE, <<>>, TRUE, Described("KJV"), TRUE, TRUE, KjvRows)
Unreadable   == Entry(FALSE, TRUE, <<"S","Q","L","i","t","e","3">>, TRUE, Described("KJV"), TRUE, TRUE, KjvRows)
OpenFails    == Entry(TRUE, TRUE, <<"S","Q","L","i","t","e","3">>, FALSE, Described("KJV"), TRUE, TRUE, KjvRows)
PrepareFails == Entry(TRUE, TRUE, <<"S","Q","L","i","t","e","3">>, TRUE, NoDescription, FALSE, TRUE, <<>>)
QueryFails   == Entry(TRUE, TRUE, <<"S","Q","L","i","t","e","3">>, TRUE, Described("ASV"), TRUE, FALSE, AsvRows)

EntryKinds ==
    { GoodKjv, GoodAsv, Unlabelled, NotADatabase, NoExtension, Unreadable,
      OpenFails, PrepareFails, QueryFails }

MaxSources == 3

Directory(entries) == [readable |-> TRUE, entries |-> entries]

NoDirectory == [readable |-> FALSE, entries |-> <<>>]

Directories ==
    { Directory(es) : es \in SeqsUpTo(EntryKinds, MaxSources) } \cup { NoDirectory }

RefGen6      == <<"G","e","n"," ","6",":","1","-","6">>
RefGen6to7   == <<"G","e","n"," ","6",":","1","-","7",":","2">>
RefInverted  == <<"G","e","n"," ","7",":","1","-","6",":","1">>
RefNotARef   == <<"n","o","t"," ","a"," ","r","e","f">>

CompareRefs == { RefGen6, RefGen6to7, RefInverted, RefNotARef }

InitApp ==
    /\ search_results = <<>>
    /\ rendered = <<>>
    /\ lookup_results = <<>>
    /\ compare_results = <<>>
    /\ crashed = FALSE
    /\ submitted = NoSubmit
    /\ looked_up = NoLookup
    /\ last_failure = "none"

\* The search box holds a query; the Search button is pressed.
InitCompile ==
    /\ search_input \in CompileQueries
    /\ lookup_input = <<>>
    /\ db = MainTable
    /\ dir = Directory(<<>>)
    /\ InitApp

NextCompile == SearchSubmitted

SpecCompile == InitCompile /\ [][NextCompile]_vars

\* The lookup box holds a reference; Lookup or Compare is pressed.
InitParse ==
    /\ search_input = <<>>
    /\ lookup_input \in ParseInputs
    /\ db = MainTable
    /\ dir = Directory(<<GoodKjv, QueryFails, GoodAsv>>)
    /\ InitApp

NextParse == LookupSubmitted \/ CompareSubmitted

SpecParse == InitParse /\ [][NextParse]_vars

\* The lookup box holds a reference, the directory some entries; Compare is
\* pressed.
InitCompare ==
    /\ search_input = <<>>
    /\ lookup_input \in CompareRefs
    /\ db = MainTable
    /\ dir \in Directories
    /\ InitApp

NextCompare == CompareSubmitted

SpecCompare == InitCompare /\ [][NextCompare]_vars

\* What a keystroke or a paste adds to the search box when highlighting is
\* examined: letters, the metacharacters * and (, a blank, a NOT prefix and a
\* keyword
HighlightLexicon ==
    { <<"a">>, <<"b">>, <<"*">>, <<"(">>, <<" ">>, <<"n","o","t">>, <<"o","r"," ">> }

MaxQueryLen == 4

MaxTextLen == 2

HighlightTexts ==
    SeqsUpTo({"a", "B"}, MaxTextLen) \cup { <<"n","o","t"," ","a">>, <<"n","o","T","a">> }

\* Message::SearchChanged as the search box sends it when piece is added to
\* its content; the model stops typing at MaxQueryLen characters
TypeInSearch(piece) ==
    /\ Len(search_input) + Len(piece) <= MaxQueryLen
    /\ SearchChanged(search_input \o piece)

\* App::new over a store of one verse
InitHighlight ==
    /\ db \in { << Row(Gen, "Genesis", 1, 1, t, TRUE) >> : t \in HighlightTexts }
    /\ search_input = <<>>
    /\ lookup_input = <<>>
    /\ dir = Directory(<<>>)
    /\ InitApp

NextHighlight ==
    \/ \E piece \in HighlightLexicon : TypeInSearch(piece)
    \/ SearchSubmitted

SpecHighlight == InitHighlight /\ [][NextHighlight]_vars

AppQueries == { <<"x">>, <<"n","o">>, <<"y"," ","o","r"," ","N","o","t","x">> }

AppRefs == { RefGen6, RefGen6to7, RefNotARef }

\* App::new, with the store and the directory of the model
Init ==
    /\ search_input = <<>>
    /\ lookup_input = <<>>
    /\ db = MainTable
    /\ dir = Directory(<<QueryFails, GoodKjv, GoodAsv>>)
    /\ InitApp

Next ==
    \/ \E query \in AppQueries : SearchChanged(query)
    \/ SearchSubmitted
    \/ \E query \in AppRefs : LookupChanged(query)
    \/ LookupSubmitted
    \/ CompareSubmitted

Spec == Init /\ [][Next]_vars

-----------------------------------------------------------------------------
(* Properties of build_where_clause, on the statement the last             *)
(* SearchSubmitted built                                                   *)

SubmittedTokens == split_whitespace(submitted.query)

IsKeyword(token) == to_uppercase(token) \in {KwAND, KwOR}

HasNotPrefix(token) == starts_with(to_uppercase(token), KwNOT)

\* The tokens that are not the keywords AND / OR, in order
TermTokens == SelectSeq(SubmittedTokens, LAMBDA t : ~IsKeyword(t))

SubmittedConditions == ConditionsOf(submitted.clause)

HasToken(kw) ==
    \E i \in 1..Len(SubmittedTokens) : to_uppercase(SubmittedTokens[i]) = kw

\* C1: a query with both an AND token and an OR token, in any order, is
\* compiled with AND: every joiner of the clause is " AND ", none is " OR ".
C1_AndWinsOverOr ==
    (submitted.done /\ HasToken(KwAND) /\ HasToken(KwOR)) =>
        /\ \A i \in 1..Len(submitted.clause) :
              i % 2 = 0 => submitted.clause[i] = " AND "
        /\ \A i \in 1..Len(submitted.clause) : submitted.clause[i] # " OR "

\* C1 witness: OR comes before AND and two conditions are joined.
C1_Witness ==
    /\ submitted.done
    /\ \E i, j \in 1..Len(SubmittedTokens) :
          /\ i < j
          /\ to_uppercase(SubmittedTokens[i]) = KwOR
          /\ to_uppercase(SubmittedTokens[j]) = KwAND
    /\ Len(submitted.clause) >= 3
    /\ submitted.clause[2] = " AND "

\* C2: each token with a NOT prefix and more than 3 characters gives one
\* NOT LIKE condition on the token without its first 3 characters; the token
\* NOT itself, and a shorter start of it such as NO, gives one LIKE condition
\* on the whole token.  The i-th term token owns the i-th condition.
C2_NotPrefixTokens ==
    submitted.done =>
        /\ Len(SubmittedConditions) = Len(TermTokens)
        /\ Len(submitted.params) = Len(TermTokens)
        /\ \A i \in 1..Len(TermTokens) :
              LET token == TermTokens[i]
              IN  /\ (HasNotPrefix(token) /\ Len(token) > 3) =>
                        /\ SubmittedConditions[i] = CondNotLike
                        /\ submitted.params[i] = SubSeq(token, 4, Len(token))
                  /\ (Len(token) <= 3 /\ starts_with(KwNOT, to_uppercase(token))) =>
                        /\ SubmittedConditions[i] = CondLike
                        /\ submitted.params[i] = token

\* C2 witness: a query with the token NOT, a longer NOT-prefixed token and NO.
C2_Witness ==
    /\ submitted.done
    /\ \E i, j, k \in 1..Len(TermTokens) :
          /\ to_uppercase(TermTokens[i]) = KwNOT
          /\ HasNotPrefix(TermTokens[j]) /\ Len(TermTokens[j]) > 3
          /\ to_uppercase(TermTokens[k]) = <<"N","O">>
          /\ SubmittedConditions[i] = CondLike
          /\ SubmittedConditions[j] = CondNotLike

\* C3 as stated: no term is AND, OR or NOT in any case, and a negated term
\* is its token without the prefix, trimmed, and not empty.
C3_Original ==
    submitted.done =>
        /\ Len(submitted.params) = Len(TermTokens)
        /\ \A i \in 1..Len(submitted.params) :
              /\ to_uppercase(submitted.params[i]) \notin {KwAND, KwOR, KwNOT}
              /\ SubmittedConditions[i] = CondNotLike =>
                    /\ submitted.params[i] # <<>>
                    /\ submitted.params[i] = trim(SubSeq(TermTokens[i], 4, Len(TermTokens[i])))

\* C3 amended: no positive term is AND or OR in any case (a keyword token is
\* never a term), and a negated term is its NOT-prefixed token without the
\* prefix, trimmed, and not empty.  The token NOT is kept as a positive term,
\* and NOTAND, NOTOR, NOTNOT give the negated terms AND, OR, NOT.
C3_TermsExcludeKeywords ==
    submitted.done =>
        /\ Len(submitted.params) = Len(TermTokens)
        /\ Len(SubmittedConditions) = Len(TermTokens)
        /\ \A i \in 1..Len(submitted.params) :
              /\ SubmittedConditions[i] = CondLike =>
                    to_uppercase(submitted.params[i]) \notin {KwAND, KwOR}
              /\ SubmittedConditions[i] = CondNotLike =>
                    /\ HasNotPrefix(TermTokens[i])
                    /\ submitted.params[i] # <<>>
                    /\ submitted.params[i] = trim(SubSeq(TermTokens[i], 4, Len(TermTokens[i])))

\* C3 witness: a keyword token in the query, dropped, beside a negated term
\* whose text is itself a keyword.
C3_Witness ==
    /\ submitted.done
    /\ HasToken(KwAND) \/ HasToken(KwOR)
    /\ \E j \in 1..Len(submitted.params) :
          /\ SubmittedConditions[j] = CondNotLike
          /\ to_uppercase(submitted.params[j]) \in {KwAND, KwOR, KwNOT}

\* The verses of every row of the store that decodes
AllVerses == DecodedVerses(db)

\* C4: with no term token (an empty or blank query, or keywords only) the
\* parameter list is empty and the clause is "1", and the search that ran
\* returns every verse of the store; with a term token the clause is not "1"
\* and has one condition and one parameter per term token, in token order.
C4_EmptyPredicateMatchesAll ==
    submitted.done =>
        /\ TermTokens = <<>> =>
              /\ submitted.params = <<>>
              /\ submitted.clause = <<TrueClause>>
              /\ \A i \in 1..Len(db) : EvalWhere(submitted.clause, submitted.params, db[i].text)
              /\ ~crashed => search_results = AllVerses
        /\ TermTokens # <<>> =>
              /\ submitted.clause # <<TrueClause>>
              /\ Len(submitted.clause) = 2 * Len(TermTokens) - 1
              /\ Len(SubmittedConditions) = Len(TermTokens)
              /\ Len(submitted.params) = Len(TermTokens)
              /\ \A i \in 1..Len(TermTokens) :
                    /\ SubmittedConditions[i] \in {CondLike, CondNotLike}
                    /\ submitted.params[i] =
                          IF SubmittedConditions[i] = CondLike
                          THEN TermTokens[i]
                          ELSE SubSeq(TermTokens[i], 4, Len(TermTokens[i]))

\* C4 witness: a keywords-only query was searched and returned every verse.
C4_Witness ==
    /\ submitted.done
    /\ ~crashed
    /\ SubmittedTokens # <<>>
    /\ TermTokens = <<>>
    /\ search_results = AllVerses
    /\ search_results # <<>>

-----------------------------------------------------------------------------
(* Properties of parse_lookup, on the reference the last LookupSubmitted   *)
(* or CompareSubmitted parsed                                              *)

AllOf(s, P(_)) == \A i \in 1..Len(s) : P(s[i])

IsBlank(c) == c \in {" ", "\t"}

IsNotBlank(c) == ~IsBlank(c)

\* A numeric field of the grammar: a non-empty run of the digits 0..9
IsNumeral(s) == s # <<>> /\ AllOf(s, IsAsciiDigit)

\* One or more blanks between the book and the start chapter
IsBlanks(sep) == AllOf(sep, IsBlank)

\* Exactly one space between the book and the start chapter
IsOneSpace(sep) == sep = <<" ">>

\* s is <book><sep><start_ch>:<start_v>-[<end_ch>:]<end_v> for a separator
\* that satisfies S and fields that satisfy Q; the fields are given as the
\* pieces of s between cut positions.
Derivable(s, S(_), Q(_)) ==
    LET n == Len(s)
        fields(a, b, c, d, has, e) ==
            [book |-> SubSeq(s, 1, a), start_ch |-> SubSeq(s, b + 1, c),
             start_v |-> SubSeq(s, c + 2, d), has_end_ch |-> has,
             end_ch |-> IF has THEN SubSeq(s, d + 2, e) ELSE <<>>,
             end_v |-> IF has THEN SubSeq(s, e + 2, n) ELSE SubSeq(s, d + 2, n)]
    IN  \E a \in 1..n :
          /\ AllOf(SubSeq(s, 1, a), IsNotBlank)
          /\ \E b \in (a + 1)..n :
                /\ S(SubSeq(s, a + 1, b))
                /\ \E c \in (b + 1)..n :
                      /\ IsNumeral(SubSeq(s, b + 1, c))
                      /\ CharAt(s, c + 1, ":")
                      /\ \E d \in (c + 2)..n :
                            /\ IsNumeral(SubSeq(s, c + 2, d))
                            /\ CharAt(s, d + 1, "-")
                            /\ \/ /\ IsNumeral(SubSeq(s, d + 2, n))
                                  /\ Q(fields(a, b, c, d, FALSE, n))
                               \/ \E e \in (d + 2)..n :
                                     /\ IsNumeral(SubSeq(s, d + 2, e))
                                     /\ CharAt(s, e + 1, ":")
                                     /\ IsNumeral(SubSeq(s, e + 2, n))
                                     /\ Q(fields(a, b, c, d, TRUE, e))

U32MaxText == <<"4","2","9","4","9","6","7","2","9","5">>

\* A numeral without its leading zeros (one digit at least is kept)
RECURSIVE Canonical(_)
Canonical(s) == IF Len(s) > 1 /\ Head(s) = "0" THEN Canonical(Tail(s)) ELSE s

\* a <= b for numerals of one length, digit by digit
RECURSIVE NumeralLeq(_, _)
NumeralLeq(a, b) ==
    IF a = <<>> THEN TRUE
    ELSE IF DigitValue(Head(a)) # DigitValue(Head(b))
         THEN DigitValue(Head(a)) < DigitValue(Head(b))
         ELSE NumeralLeq(Tail(a), Tail(b))

\* The numeral denotes a value of at most 2^32 - 1
FitsU32(s) ==
    LET c == Canonical(s)
    IN  Len(c) < Len(U32MaxText) \/ (Len(c) = Len(U32MaxText) /\ NumeralLeq(c, U32MaxText))

\* The decimal numeral of a natural number
RECURSIVE Decimal(_)
Decimal(k) == IF k < 10 THEN <<Digits[k + 1]>> ELSE Append(Decimal(k \div 10), Digits[(k % 10) + 1])

\* The decimal numeral of a u32 held in limbs
DecimalOfU32(u) ==
    IF u.hi = 0 THEN Decimal(u.lo)
    ELSE LET low == Decimal(u.lo)
         IN  Decimal(u.hi) \o [i \in 1..(5 - Len(low)) |-> "0"] \o low

AllFit(f) ==
    /\ FitsU32(f.start_ch) /\ FitsU32(f.start_v) /\ FitsU32(f.end_v)
    /\ f.has_end_ch => FitsU32(f.end_ch)

Agrees(r, f) ==
    /\ AllFit(f)
    /\ r.book = f.book
    /\ DecimalOfU32(r.start_ch) = Canonical(f.start_ch)
    /\ DecimalOfU32(r.start_v) = Canonical(f.start_v)
    /\ DecimalOfU32(r.end_v) = Canonical(f.end_v)
    /\ IF f.has_end_ch
       THEN DecimalOfU32(r.end_ch) = Canonical(f.end_ch)
       ELSE r.end_ch = r.start_ch

RangeOf(book, start_ch, start_v, end_ch, end_v) ==
    [ok |-> TRUE, book |-> book, start_ch |-> U32(0, start_ch),
     start_v |-> U32(0, start_v), end_ch |-> U32(0, end_ch), end_v |-> U32(0, end_v)]

\* C5 as stated: parse_lookup returns a range exactly when the whole input is
\* <book> <start_ch>:<start_v>-[<end_ch>:]<end_v>, the book one run of
\* non-blank characters kept unchanged and followed by a single space, with
\* every number at most 2^32 - 1; the end chapter is the start chapter when it
\* is omitted, no order of start and end is asked, and every other input gives
\* None.
C5_Original ==
    looked_up.done =>
        LET r == looked_up.parsed
            s == looked_up.input
        IN  /\ r.ok => Derivable(s, IsOneSpace, LAMBDA f : Agrees(r, f))
            /\ ~r.ok => r = NoRange /\ ~Derivable(s, IsOneSpace, AllFit)
            /\ s = RefGen6 => r = RangeOf(Gen, 6, 1, 6, 6)
            /\ s = RefGen6to7 => r = RangeOf(Gen, 6, 1, 7, 2)

\* C5: parse_lookup returns a range exactly when the whole input is
\* <book><blanks><start_ch>:<start_v>-[<end_ch>:]<end_v> (the book one run of
\* non-blank characters, unchanged, then one or more blanks of any kind) with
\* every number at most 2^32 - 1; the range holds the fields' values, the end
\* chapter is the start chapter when it is omitted, and no order of start and
\* end is asked.  Every other input gives None.
C5_ParseLookupGrammar ==
    looked_up.done =>
        LET r == looked_up.parsed
            s == looked_up.input
        IN  /\ r.ok => Derivable(s, IsBlanks, LAMBDA f : Agrees(r, f))
            /\ ~r.ok => r = NoRange /\ ~Derivable(s, IsBlanks, AllFit)
            /\ s = RefGen6 => r = RangeOf(Gen, 6, 1, 6, 6)
            /\ s = RefGen6to7 => r = RangeOf(Gen, 6, 1, 7, 2)

\* C5 witness: "Gen 6:1-0" parses, the end chapter defaulted to 6 and the end
\* before the start.
C5_Witness ==
    /\ looked_up.done
    /\ looked_up.input = <<"G","e","n"," ","6",":","1","-","0">>
    /\ looked_up.parsed = RangeOf(Gen, 6, 1, 6, 0)

-----------------------------------------------------------------------------
(* Properties of split_for_highlight, on the segments view computes for    *)
(* the verses listed                                                       *)

\* The segments cover text from left to right without gap or overlap
Partitions(text, segments) ==
    /\ \A j \in 1..Len(segments) :
          /\ 0 <= segments[j].start
          /\ segments[j].start <= segments[j].end
          /\ segments[j].end <= Len(text)
    /\ segments = <<>> => text = <<>>
    /\ segments # <<>> =>
          /\ segments[1].start = 0
          /\ segments[Len(segments)].end = Len(text)
    /\ \A j \in 1..(Len(segments) - 1) : segments[j + 1].start = segments[j].end
    /\ Concat([j \in 1..Len(segments) |-> SliceOf(text, segments[j])]) = text

NoEmptySlice(text, segments) ==
    text # <<>> => \A j \in 1..Len(segments) : SliceOf(text, segments[j]) # <<>>

\* C6: the segments partition the text, their slices concatenate to the
\* text, and no slice is empty unless the text is.
C6_Original ==
    \A i \in 1..Len(rendered) :
        /\ Partitions(rendered[i].text, rendered[i].segments)
        /\ NoEmptySlice(rendered[i].text, rendered[i].segments)

\* The part of C6 the code keeps: the segments partition the text.
C6_SegmentsPartitionText ==
    \A i \in 1..Len(rendered) :
        Partitions(rendered[i].text, rendered[i].segments)

\* The tokens C7 allows in the pattern
MatchableOf(query) ==
    SelectSeq(split_whitespace(query), LAMBDA t : ~IsKeyword(t) /\ ~HasNotPrefix(t))

\* The token, read as a pattern, matches the whole of slice
TokenMatches(token, slice) ==
    LET branch == ParseBranch(token, 1, <<>>)
    IN  branch.ok /\ MatchItems(branch.items, 1, slice, 0) = Len(slice)

WholeUnmatched(text) == << Segment(0, Len(text), FALSE) >>

\* C7: every highlighted slice is a match of a token that is neither AND /
\* OR nor NOT-prefixed; with no such token, or with a pattern that does not
\* compile, the result is the whole text as one segment that is no match.
C7_HighlightFromMatchableTokens ==
    \A i \in 1..Len(rendered) :
        LET text     == rendered[i].text
            segments == rendered[i].segments
            tokens   == MatchableOf(search_input)
        IN  /\ (tokens = <<>> \/ ~RegexNew(HighlightPattern(tokens)).ok) =>
                  segments = WholeUnmatched(text)
            /\ \A j \in 1..Len(segments) :
                  segments[j].is_match =>
                      \E k \in 1..Len(tokens) :
                          TokenMatches(tokens[k], SliceOf(text, segments[j]))

\* C7 witness: the text holds the query's only token, which is NOT-prefixed,
\* and is shown as one segment that is no match.
C7_Witness ==
    /\ Len(rendered) = 1
    /\ split_whitespace(search_input) # <<>>
    /\ \A k \in 1..Len(split_whitespace(search_input)) :
          /\ HasNotPrefix(split_whitespace(search_input)[k])
          /\ Len(split_whitespace(search_input)[k]) > 3
          /\ Like(rendered[1].text, split_whitespace(search_input)[k])
    /\ rendered[1].segments = WholeUnmatched(rendered[1].text)

-----------------------------------------------------------------------------
(* Properties of App::update *)

\* A directory entry the comparison takes as a source
IsSource(e) ==
    e.readable /\ e.has_extension /\ to_uppercase(e.extension) = to_uppercase(SQLite3)

\* Its connection, its statement and its query all succeed
Succeeds(e) == IsSource(e) /\ e.opens /\ e.prepares /\ e.queries

LabelOf(e) == IF e.description.ok THEN e.description.value ELSE UnknownBible

\* The row is in the range of the parsed reference (numbers below LimbBase)
InRange(row, range) ==
    /\ row.short_name = range.book
    /\ range.start_ch.lo * 1000 + range.start_v.lo <= row.chapter * 1000 + row.verse
    /\ row.chapter * 1000 + row.verse <= range.end_ch.lo * 1000 + range.end_v.lo

\* C8: a comparison with a reference that parses gives one entry for each
\* source that is queried successfully, in the order of the directory, and a
\* failing source neither adds an entry nor stops the loop nor panics; the
\* verses of an entry are the source's rows in the range, in order, each with
\* the entry's label.
C8_CompareIsolatesFailures ==
    (looked_up.done /\ looked_up.message = "CompareSubmitted" /\ looked_up.parsed.ok) =>
        LET good == SelectSeq(dir.entries, Succeeds)
        IN  /\ ~crashed
            /\ Len(compare_results) = Len(good)
            /\ \A i \in 1..Len(good) :
                  LET label  == compare_results[i][1]
                      verses == compare_results[i][2]
                      rows   == SelectSeq(good[i].rows,
                                    LAMBDA r : r.decodes /\ InRange(r, looked_up.parsed))
                  IN  /\ label = LabelOf(good[i])
                      /\ Len(verses) = Len(rows)
                      /\ \A j \in 1..Len(verses) :
                            /\ verses[j].long_name = label
                            /\ \E k \in 1..Len(rows) :
                                  /\ rows[k].chapter = verses[j].chapter
                                  /\ rows[k].verse = verses[j].verse
                                  /\ rows[k].text = verses[j].text
                      /\ \A j \in 1..(Len(verses) - 1) :
                            verses[j].chapter * 1000 + verses[j].verse
                                <= verses[j + 1].chapter * 1000 + verses[j + 1].verse

\* C8 witness: of two sources the first fails and the second succeeds, and
\* the comparison holds the second one's verses alone.
C8_Witness ==
    /\ looked_up.done /\ looked_up.message = "CompareSubmitted" /\ looked_up.parsed.ok
    /\ Len(dir.entries) = 2
    /\ IsSource(dir.entries[1]) /\ ~Succeeds(dir.entries[1])
    /\ Succeeds(dir.entries[2])
    /\ Len(compare_results) = 1
    /\ Len(compare_results[1][2]) >= 2
    /\ ~crashed

\* What update hands to its caller: it returns the unit value or it panics
UpdateOutcome == IF crashed THEN "panic" ELSE "unit"

\* C9: a failure of the table query of a search or a lookup reaches the caller
\* as an error value, and the process goes on.
C9_Original ==
    last_failure # "none" => (~crashed /\ UpdateOutcome = "error")

\* C10: the segments shown for the listed verses are those of the query that
\* was compiled for them.
C10_Original ==
    (submitted.done /\ ~crashed) =>
        /\ Len(rendered) = Len(search_results)
        /\ \A i \in 1..Len(search_results) :
              /\ rendered[i].text = search_results[i].text
              /\ rendered[i].segments =
                    split_for_highlight(search_results[i].text, submitted.query)

-----------------------------------------------------------------------------
(* Properties of the lookup and compare sections of App                    *)

\* The lookup and the comparison never both show results; the last of
\* LookupSubmitted and CompareSubmitted emptied the other's results, and both
\* are empty when its reference did not parse.
ExclusiveResults ==
    /\ ~(lookup_results # <<>> /\ compare_results # <<>>)
    /\ looked_up.message = "LookupSubmitted" => compare_results = <<>>
    /\ looked_up.message = "CompareSubmitted" => lookup_results = <<>>
    /\ (looked_up.done /\ ~looked_up.parsed.ok) =>
           (lookup_results = <<>> /\ compare_results = <<>>)

\* A step of LookupChanged, LookupSubmitted or CompareSubmitted
LookupOrCompareStep ==
    \/ \E query \in AppRefs : LookupChanged(query)
    \/ LookupSubmitted
    \/ CompareSubmitted

\* C11: in every state reachable by the five messages lookup_results and
\* compare_results are never both non-empty: LookupSubmitted empties
\* compare_results, CompareSubmitted empties lookup_results, a reference that
\* does not parse leaves both empty, and no lookup or compare message changes
\* search_results.
C11_LookupCompareExclusive ==
    /\ []ExclusiveResults
    /\ [][LookupOrCompareStep => search_results' = search_results]_vars

\* C11 witness: with search results listed, a comparison that found verses
\* has replaced the lookup results.
C11_Witness ==
    /\ looked_up.message = "CompareSubmitted"
    /\ looked_up.parsed.ok
    /\ compare_results # <<>>
    /\ \E k \in 1..Len(compare_results) : compare_results[k][2] # <<>>
    /\ lookup_results = <<>>
    /\ search_results # <<>>
    /\ ~crashed

=============================================================================
